---------------------------- MODULE Spec2Model ----------------------------
(***************************************************************************)
(* Model of the site's scripts: ticker.js (src/unnamed/part_001: the CORS  *)
(* relay fallback chain, the FRED helpers, the render helpers and          *)
(* loadTicker), drawer.js (same file) and steam-fetch.js.                  *)
(*                                                                         *)
(* Text is a sequence of one-character strings.  Numbers are integers, or  *)
(* the strings "NaN", "Infinity", "-Infinity" wrapped in a Num record.     *)
(***************************************************************************)
EXTENDS Integers, Sequences, FiniteSets, TLC

VARIABLES
    dIn,      \* decodeDataPayload harness: the argument
    dOut,     \* decodeDataPayload harness: the completion (or Pending)
    calls,    \* fetchText calls of the pass: call id -> call state
    btc,      \* the CoinGecko request of the pass
    pc,       \* position of loadTicker
    dom,      \* DOM: element -> [text, classes]
    dom0,     \* DOM as it was when the pass started
    updates,  \* the updateSpans calls of the pass, in order
    hung,     \* requests that never settle: <<call, path>>
    tape,     \* does the page hold a .ticker-tape element
    trace,    \* what is being logged: "requests", "completions"
    settled,  \* the series tickers whose fetch has settled, in that order
    fred,     \* fetchFred harness: the csv text received and the completion
    pairCall, \* latestPair harness: the array passed and the completion
    passes,   \* overlapping loadTicker passes: pass -> [pc, calls, btcOk]
    lastRun,  \* stage of loadTicker -> the pass that went through it last
    steam,    \* steam-fetch.js: the process, its requests and its output file
    nav       \* drawer.js: the drawer, its toggle buttons, the events handled

sideVars == <<fred, pairCall, passes, lastRun, steam, nav>>
overlapVars == <<passes, lastRun>>

vars == <<dIn, dOut, calls, btc, pc, dom, dom0, updates, hung, tape, trace,
          settled, sideVars>>

decodeVars == <<dIn, dOut>>
pageVars == <<hung, tape, trace>>
mainVars == <<decodeVars, pageVars, calls, btc, pc, dom, dom0, updates,
              settled>>

(***************************************************************************)
(* Bounds.                                                                 *)
(***************************************************************************)
MaxPayload == 4    \* longest payload segment given to decodeDataPayload
NumTickers == 3    \* length of the series-backed ticker list

(***************************************************************************)
(* Completions of a JavaScript call: a returned value or a thrown error.   *)
(***************************************************************************)
Ret(v) == [ok |-> TRUE, val |-> v, err |-> ""]
Throw(e) == [ok |-> FALSE, val |-> <<>>, err |-> e]
Pending == [ok |-> FALSE, val |-> <<>>, err |-> "pending"]

(***************************************************************************)
(* String primitives of the platform.                                      *)
(***************************************************************************)
RECURSIVE IndexFrom(_, _, _)
IndexFrom(s, pat, i) ==
    IF i + Len(pat) - 1 > Len(s) THEN -1
    ELSE IF SubSeq(s, i, i + Len(pat) - 1) = pat THEN i - 1
    ELSE IndexFrom(s, pat, i + 1)

\* String.prototype.indexOf: 0-based position of the first match, or -1
IndexOf(s, pat) == IndexFrom(s, pat, 1)

\* String.prototype.slice(a, b) with 0 <= a <= b <= length
Slice(s, a, b) == SubSeq(s, a + 1, b)

Base64Alphabet ==
    << "A","B","C","D","E","F","G","H","I","J","K","L","M","N","O","P",
       "Q","R","S","T","U","V","W","X","Y","Z","a","b","c","d","e","f",
       "g","h","i","j","k","l","m","n","o","p","q","r","s","t","u","v",
       "w","x","y","z","0","1","2","3","4","5","6","7","8","9","+","/" >>

IsBase64Char(c) == \E i \in 1..64 : Base64Alphabet[i] = c

Base64Value(c) == (CHOOSE i \in 1..64 : Base64Alphabet[i] = c) - 1

\* printable ASCII, code 32 at index 1
Ascii ==
    << " ", "!", "\"", "#", "$", "%", "&", "'", "(", ")", "*", "+", ",", "-", ".", "/",
       "0", "1", "2", "3", "4", "5", "6", "7", "8", "9", ":", ";", "<", "=", ">", "?",
       "@", "A", "B", "C", "D", "E", "F", "G", "H", "I", "J", "K", "L", "M", "N", "O",
       "P", "Q", "R", "S", "T", "U", "V", "W", "X", "Y", "Z", "[", "\\", "]", "^", "_",
       "<?>", "a", "b", "c", "d", "e", "f", "g", "h", "i", "j", "k", "l", "m", "n", "o",
       "p", "q", "r", "s", "t", "u", "v", "w", "x", "y", "z", "{", "|", "}", "~" >>

\* the character of a code unit; the grave accent and the code units
\* outside printable ASCII are all written "<?>" (no definition below
\* looks inside such a character)
CharOf(b) == IF b >= 32 /\ b <= 126 THEN Ascii[b - 31]
             ELSE IF b = 10 THEN "\n"
             ELSE IF b = 13 THEN "\r"
             ELSE "<?>"

RECURSIVE Base64Bytes(_)
Base64Bytes(s) ==
    IF Len(s) = 0 THEN <<>>
    ELSE IF Len(s) = 2 THEN
        << CharOf(Base64Value(s[1]) * 4 + Base64Value(s[2]) \div 16) >>
    ELSE IF Len(s) = 3 THEN
        << CharOf(Base64Value(s[1]) * 4 + Base64Value(s[2]) \div 16),
           CharOf((Base64Value(s[2]) % 16) * 16 + Base64Value(s[3]) \div 4) >>
    ELSE
        << CharOf(Base64Value(s[1]) * 4 + Base64Value(s[2]) \div 16),
           CharOf((Base64Value(s[2]) % 16) * 16 + Base64Value(s[3]) \div 4),
           CharOf((Base64Value(s[3]) % 4) * 64 + Base64Value(s[4])) >>
        \o Base64Bytes(SubSeq(s, 5, Len(s)))

StripPadding(s) ==
    IF Len(s) % 4 = 0 /\ Len(s) > 0 /\ s[Len(s)] = "="
    THEN IF s[Len(s) - 1] = "="
         THEN SubSeq(s, 1, Len(s) - 2)
         ELSE SubSeq(s, 1, Len(s) - 1)
    ELSE s

\* window.atob (forgiving-base64 decode) on text without ASCII whitespace
atob(s) ==
    LET t == StripPadding(s) IN
    IF Len(t) % 4 = 1 \/ \E i \in 1..Len(t) : ~IsBase64Char(t[i])
    THEN Throw("InvalidCharacterError")
    ELSE Ret(Base64Bytes(t))

HexDigits ==
    << "0","1","2","3","4","5","6","7","8","9","A","B","C","D","E","F" >>

IsHex(c) == \E i \in 1..16 : HexDigits[i] = c

HexValue(c) == (CHOOSE i \in 1..16 : HexDigits[i] = c) - 1

\* is there an escape %XY at position i of s
EscapeAt(s, i) ==
    /\ i + 2 <= Len(s)
    /\ s[i] = "%"
    /\ IsHex(s[i + 1])
    /\ IsHex(s[i + 2])

EscapeByte(s, i) == HexValue(s[i + 1]) * 16 + HexValue(s[i + 2])

\* continuation escapes a UTF-8 lead byte asks for; -1 for no lead byte
Continuations(b) ==
    IF b >= 194 /\ b <= 223 THEN 1
    ELSE IF b >= 224 /\ b <= 239 THEN 2
    ELSE IF b >= 240 /\ b <= 244 THEN 3
    ELSE -1

RECURSIVE PercentDecode(_, _, _)
PercentDecode(s, i, acc) ==
    IF i > Len(s) THEN Ret(acc)
    ELSE IF s[i] # "%" THEN PercentDecode(s, i + 1, Append(acc, s[i]))
    ELSE IF ~EscapeAt(s, i) THEN Throw("URIError")
    ELSE LET b == EscapeByte(s, i)
             n == Continuations(b) IN
         IF b < 128 THEN PercentDecode(s, i + 3, Append(acc, CharOf(b)))
         ELSE IF n = -1 THEN Throw("URIError")
         ELSE IF \A k \in 1..n :
                    /\ EscapeAt(s, i + 3 * k)
                    /\ EscapeByte(s, i + 3 * k) >= 128
                    /\ EscapeByte(s, i + 3 * k) <= 191
              THEN PercentDecode(s, i + 3 * (n + 1), Append(acc, "<?>"))
              ELSE Throw("URIError")

\* decodeURIComponent on text with upper-case hex digits
decodeURIComponent(s) == PercentDecode(s, 1, <<>>)

DataPrefix == << "d","a","t","a",":" >>
Base64Mark == << ";","b","a","s","e","6","4" >>

decodeDataPayload(contents) ==
    IF contents = <<>> THEN Ret(<<>>)
    ELSE IF IndexOf(contents, DataPrefix) # 0 THEN Ret(contents)
    ELSE LET comma == IndexOf(contents, <<",">>) IN
         IF comma = -1 THEN Ret(contents)
         ELSE LET metadata == Slice(contents, 0, comma)
                  payload == Slice(contents, comma + 1, Len(contents)) IN
              IF IndexOf(metadata, Base64Mark) # -1
              THEN atob(payload)
              ELSE decodeURIComponent(payload)


(***************************************************************************)
(* JavaScript values that reach the arithmetic of loadTicker: a finite     *)
(* number n/d (d > 0, exact: rounding of doubles is not modelled), NaN,    *)
(* the infinities, null and undefined.                                     *)
(***************************************************************************)
Fin(n, d) == [k |-> "fin", n |-> n, d |-> d]
NaN == [k |-> "nan", n |-> 0, d |-> 1]
PosInf == [k |-> "inf", n |-> 1, d |-> 1]
NegInf == [k |-> "ninf", n |-> -1, d |-> 1]
Null == [k |-> "null", n |-> 0, d |-> 1]
Undefined == [k |-> "undefined", n |-> 0, d |-> 1]

AbsInt(n) == IF n < 0 THEN -n ELSE n

\* ToNumber
ToNum(x) == IF x.k = "null" THEN Fin(0, 1)
            ELSE IF x.k = "undefined" THEN NaN
            ELSE x

\* Number.isFinite
IsFinite(x) == x.k = "fin"

\* x >= 0
GeZero(x) == LET v == ToNum(x) IN
             \/ v.k = "inf"
             \/ v.k = "fin" /\ v.n >= 0

\* ToBoolean of a number, null or undefined
Truthy(x) == \/ x.k \in {"inf", "ninf"}
             \/ x.k = "fin" /\ x.n # 0

\* a - b, for a and b finite, NaN, null or undefined
Minus(a, b) ==
    LET x == ToNum(a)
        y == ToNum(b) IN
    IF x.k = "fin" /\ y.k = "fin"
    THEN Fin(x.n * y.d - y.n * x.d, x.d * y.d)
    ELSE NaN

\* a / b, for a finite or NaN and b finite (a zero divisor is +0)
Divide(a, b) ==
    IF a.k # "fin" \/ b.k # "fin" THEN NaN
    ELSE IF b.n = 0
         THEN IF a.n > 0 THEN PosInf ELSE IF a.n < 0 THEN NegInf ELSE NaN
    ELSE IF b.n > 0 THEN Fin(a.n * b.d, a.d * b.n)
    ELSE Fin(-(a.n * b.d), a.d * (-b.n))

\* a * 100
Times100(a) == IF a.k = "fin" THEN Fin(a.n * 100, a.d) ELSE a

\* Math.abs
MathAbs(x) == LET v == ToNum(x) IN
              IF v.k = "fin" THEN Fin(AbsInt(v.n), v.d)
              ELSE IF v.k = "ninf" THEN PosInf
              ELSE v

\* Number.prototype.toFixed(2) of a non-negative number, as tokens
ToFixed2(x) ==
    IF x.k = "fin"
    THEN LET h == (x.n * 200 + x.d) \div (2 * x.d) IN
         << ToString(h \div 100), ".",
            ToString((h % 100) \div 10), ToString(h % 10) >>
    ELSE IF x.k = "nan" THEN << "NaN" >>
    ELSE << "Infinity" >>

RECURSIVE Zeros(_)
Zeros(k) == IF k <= 0 THEN <<>> ELSE << "0" >> \o Zeros(k - 1)

\* value.toLocaleString(undefined, {minimum/maximumFractionDigits: decimals})
\* for an integer value; grouping is left to the locale and not modelled
ToLocaleString(value, decimals) ==
    IF value.k \in {"null", "undefined"} THEN Throw("TypeError")
    ELSE IF value.k = "nan" THEN Ret(<< "NaN" >>)
    ELSE IF value.k = "inf" THEN Ret(<< "Infinity" >>)
    ELSE IF value.k = "ninf" THEN Ret(<< "-Infinity" >>)
    ELSE Ret(<< ToString(value.n) >>
             \o (IF decimals > 0 THEN << "." >> \o Zeros(decimals) ELSE <<>>))


(***************************************************************************)
(* FRED helpers.                                                           *)
(***************************************************************************)
Digits == << "0","1","2","3","4","5","6","7","8","9" >>

IsDigit(c) == \E i \in 1..10 : Digits[i] = c

DigitValue(c) == (CHOOSE i \in 1..10 : Digits[i] = c) - 1

RECURSIVE DigitsValue(_, _)
DigitsValue(s, acc) ==
    IF s = <<>> THEN acc
    ELSE DigitsValue(Tail(s), acc * 10 + DigitValue(Head(s)))

\* Number(text) for text made of digits, signs and characters that occur
\* in no numeric literal ("." stands alone where it occurs: the mark of
\* a missing observation)
NumberOf(s) ==
    LET body == IF s # <<>> /\ s[1] \in {"-", "+"} THEN Tail(s) ELSE s IN
    IF s = <<>> THEN Fin(0, 1)
    ELSE IF body = <<>> \/ \E i \in 1..Len(body) : ~IsDigit(body[i]) THEN NaN
    ELSE IF s[1] = "-" THEN Fin(-DigitsValue(body, 0), 1)
    ELSE Fin(DigitsValue(body, 0), 1)

\* String.prototype.split(',')
RECURSIVE SplitComma(_, _)
SplitComma(s, cur) ==
    IF s = <<>> THEN << cur >>
    ELSE IF Head(s) = "," THEN << cur >> \o SplitComma(Tail(s), <<>>)
    ELSE SplitComma(Tail(s), Append(cur, Head(s)))

DropCr(line) ==
    IF line # <<>> /\ line[Len(line)] = "\r"
    THEN SubSeq(line, 1, Len(line) - 1)
    ELSE line

\* String.prototype.split(/\r?\n/)
RECURSIVE SplitLines(_, _)
SplitLines(s, cur) ==
    IF s = <<>> THEN << cur >>
    ELSE IF Head(s) = "\n" THEN << DropCr(cur) >> \o SplitLines(Tail(s), <<>>)
    ELSE SplitLines(Tail(s), Append(cur, Head(s)))

\* Array.prototype.filter(Boolean) on an array of strings
NonEmpty(lines) == SelectSeq(lines, LAMBDA l : l # <<>>)

NoPoint == [isNull |-> TRUE, date |-> <<>>, value |-> 0]
Point(date, value) == [isNull |-> FALSE, date |-> date, value |-> value]

\* the callback of lines.slice(1).map in parseFredCsv
ParseLine(line) ==
    LET parts == SplitComma(line, <<>>) IN
    IF Len(parts) < 2 THEN NoPoint
    ELSE LET v == NumberOf(parts[2]) IN
         IF IsFinite(v) THEN Point(parts[1], v.n) ELSE NoPoint

RECURSIVE MapParseLine(_)
MapParseLine(lines) ==
    IF lines = <<>> THEN <<>>
    ELSE << ParseLine(Head(lines)) >> \o MapParseLine(Tail(lines))

parseFredCsv(csv) ==
    LET lines == NonEmpty(SplitLines(csv, <<>>)) IN
    IF Len(lines) < 2 THEN <<>>
    ELSE SelectSeq(MapParseLine(Tail(lines)), LAMBDA p : ~p.isNull)

\* latestPair taking a previous point only from the third point on
latestPairOffByOne(pts) ==
    IF Len(pts) = 0 THEN [latest |-> NoPoint, previous |-> NoPoint]
    ELSE [latest |-> pts[Len(pts)],
          previous |-> IF Len(pts) > 2 THEN pts[Len(pts) - 1] ELSE NoPoint]

latestPair(pts) ==
    IF Len(pts) = 0 THEN [latest |-> NoPoint, previous |-> NoPoint]
    ELSE [latest |-> pts[Len(pts)],
          previous |-> IF Len(pts) > 1 THEN pts[Len(pts) - 1] ELSE NoPoint]

(***************************************************************************)
(* Ticker config.  An absent suffix is the empty string.                   *)
(***************************************************************************)
fredTickers ==
    << [attr |-> "SP500", fred |-> "SP500", label |-> "S&P 500",
        decimals |-> 0, suffix |-> ""],
       [attr |-> "NASDAQ", fred |-> "NASDAQCOM", label |-> "NASDAQ",
        decimals |-> 0, suffix |-> ""],
       [attr |-> "10Y", fred |-> "DGS10", label |-> "10Y YIELD",
        decimals |-> 3, suffix |-> "%"],
       [attr |-> "GOLD", fred |-> "GOLDAMGBD228NLBM", label |-> "GOLD",
        decimals |-> 2, suffix |-> ""],
       [attr |-> "VIX", fred |-> "VIXCLS", label |-> "VIX",
        decimals |-> 2, suffix |-> ""],
       [attr |-> "EURUSD", fred |-> "DEXUSEU", label |-> "EUR/USD",
        decimals |-> 4, suffix |-> ""],
       [attr |-> "CRUDE", fred |-> "DCOILWTICO", label |-> "WTI CRUDE",
        decimals |-> 2, suffix |-> ""],
       [attr |-> "FEDFUNDS", fred |-> "FEDFUNDS", label |-> "FED FUNDS",
        decimals |-> 2, suffix |-> "%"] >>

\* the tickers of the pass: NumTickers consecutive entries of the list,
\* from the third on (entries with and without a suffix)
Tickers == 1..NumTickers
Cfg(i) == fredTickers[((i + 1) % Len(fredTickers)) + 1]

(***************************************************************************)
(* DOM helpers.                                                            *)
(***************************************************************************)
UpGlyph == "up-triangle"      \* U+25B2
DownGlyph == "down-triangle"  \* U+25BC

\* fmtTicker without its Number.isFinite test
fmtTickerNoFiniteCheck(label, value, decimals, suffix, pct) ==
    LET f == ToLocaleString(value, decimals) IN
    IF ~f.ok THEN f
    ELSE Ret(<< label, " " >> \o f.val
             \o (IF suffix # "" THEN << suffix >> ELSE <<>>)
             \o (IF pct.k # "null"
                 THEN << " ", IF GeZero(pct) THEN UpGlyph ELSE DownGlyph >>
                      \o ToFixed2(MathAbs(pct)) \o << "%" >>
                 ELSE <<>>))

fmtTicker(label, value, decimals, suffix, pct) ==
    LET f == ToLocaleString(value, decimals) IN
    IF ~f.ok THEN f
    ELSE Ret(<< label, " " >> \o f.val
             \o (IF suffix # "" THEN << suffix >> ELSE <<>>)
             \o (IF pct.k # "null" /\ IsFinite(pct)
                 THEN << " ", IF GeZero(pct) THEN UpGlyph ELSE DownGlyph >>
                      \o ToFixed2(MathAbs(pct)) \o << "%" >>
                 ELSE <<>>))

\* the page: one element per series ticker, a second element for the first
\* ticker (the tape repeats its items), one for BTC and one for DJIA
Elements == 1..(NumTickers + 3)
ElementKey(e) ==
    IF e <= NumTickers THEN Cfg(e).attr
    ELSE IF e = NumTickers + 1 THEN Cfg(1).attr
    ELSE IF e = NumTickers + 2 THEN "BTC"
    ELSE "DJIA"

\* updateSpans without the classList.remove
updateSpansKeepsClasses(d, attr, text, direction) ==
    [e \in Elements |->
        IF ElementKey(e) # attr THEN d[e]
        ELSE [text |-> text,
              classes |-> (d[e].classes
                           \cup (IF direction = "up" THEN {"tick--up"} ELSE {}))
                           \cup (IF direction = "down" THEN {"tick--down"} ELSE {})]]

\* the DOM after updateSpans(attr, text, direction) on DOM d
updateSpans(d, attr, text, direction) ==
    [e \in Elements |->
        IF ElementKey(e) # attr THEN d[e]
        ELSE [text |-> text,
              classes |-> ((d[e].classes \ {"tick--up", "tick--down"})
                           \cup (IF direction = "up" THEN {"tick--up"} ELSE {}))
                           \cup (IF direction = "down" THEN {"tick--down"} ELSE {})]]


(***************************************************************************)
(* What the network can answer.                                            *)
(***************************************************************************)
CsvUp == << "D",",","V","\n","a",",","1","0","0","\n","b",",","1","1","0" >>
CsvPrevZero ==
    << "D",",","V","\r","\n","a",",","0","\r","\n","b",",","5","\r","\n" >>
CsvSingle == << "D",",","V","\n","a",",",".","\n","b",",","7" >>
CsvHeaderOnly == << "D",",","V","\n" >>

CsvBodies == {CsvUp, CsvPrevZero, CsvSingle, CsvHeaderOnly}

\* chart documents, as text
JsonFlat == << "{","f","l","a","t","}" >>
JsonDown == << "{","d","o","w","n","}" >>
JsonNegPrev == << "{","n","e","g","}" >>
JsonNoPrev == << "{","n","o","p","r","e","v","}" >>
JsonNoPrice == << "{","n","o","p","r","i","c","e","}" >>

ChartBodies == {JsonFlat, JsonDown, JsonNegPrev, JsonNoPrev, JsonNoPrice,
                CsvHeaderOnly}

\* data.chart.result[0].meta of a parsed chart document
Meta(price, chartPreviousClose, previousClose) ==
    [regularMarketPrice |-> price,
     chartPreviousClose |-> chartPreviousClose,
     previousClose |-> previousClose]

\* JSON.parse followed by data.chart.result[0], on the texts above
ChartResult(raw) ==
    IF raw = JsonFlat THEN Ret(Meta(Fin(100, 1), Fin(100, 1), Undefined))
    ELSE IF raw = JsonDown THEN Ret(Meta(Fin(90, 1), Undefined, Fin(100, 1)))
    ELSE IF raw = JsonNegPrev
         THEN Ret(Meta(Fin(-90, 1), Fin(-100, 1), Undefined))
    ELSE IF raw = JsonNoPrev THEN Ret(Meta(Fin(110, 1), Fin(0, 1), Undefined))
    ELSE IF raw = JsonNoPrice
         THEN Ret(Meta(Undefined, Fin(100, 1), Undefined))
    ELSE Throw("SyntaxError")

\* relay B "wrapped" answers {contents: ...}: the target's text as it is,
\* as a data: URL, or nothing
WrappedEmpty ==
    << "d","a","t","a",":","t","e","x","t","/","c","s","v",";",
       "b","a","s","e","6","4","," >>
WrappedCsvUp ==
    WrappedEmpty \o << "R","C","x","W","C","m","E","s","M","T","A","w",
                       "C","m","I","s","M","T","E","w" >>
EscapedCsvUp ==
    << "d","a","t","a",":","t","e","x","t","/","c","s","v",",",
       "D","%","2","C","V","%","0","A","a","%","2","C","1","0","0",
       "%","0","A","b","%","2","C","1","1","0" >>
WrappedBroken == WrappedEmpty \o << "R","C","x","W","!" >>

Wrappings == {<<>>, WrappedEmpty, WrappedCsvUp, EscapedCsvUp, WrappedBroken}

(***************************************************************************)
(* CORS proxy fallback chain.  A fetchText call is                         *)
(*   path   - the relay being tried (index into Paths; 0 when none is),    *)
(*   step   - "idle", "fetch" (awaiting fetch), "body" (awaiting r.text()  *)
(*            or r.json()), "done",                                        *)
(*   log    - the requests of the call and how each ended,                 *)
(*   result - the completion of the call.                                  *)
(* A rejection carries the name of the relay whose request raised it.      *)
(***************************************************************************)
Paths == << "Codetabs", "AllOrigins/get", "AllOrigins/raw" >>

\* a log entry: a request sent ("start"), or how it ended ("ok", "fail")
\* with the error raised and the body received, if any
Event(path, ev, err, body) ==
    [path |-> path, ev |-> ev, err |-> err, body |-> body]

\* the log of a call after more events
Logged(call, events) ==
    IF "requests" \in trace THEN call.log \o events ELSE call.log

IdleCall == [path |-> 0, step |-> "idle", log |-> <<>>, result |-> Pending]

\* fetchText(url) up to its first await
StartCall ==
    [path |-> 1, step |-> "fetch",
     log |-> Logged(IdleCall, << Event(Paths[1], "start", "", <<>>) >>),
     result |-> Pending]

\* fetchText: an attempt returned text (having received body)
fetchTextReturn(call, text, body) ==
    [call EXCEPT !.path = 0,
                 !.step = "done",
                 !.log = Logged(call,
                                << Event(Paths[call.path], "ok", "", body) >>),
                 !.result = Ret(text)]

\* fetchTextCatch with the wrapped relay left out of the chain
fetchTextCatchSkipsWrapped(call, e, body) ==
    IF call.path < Len(Paths)
    THEN [call EXCEPT !.path = Len(Paths),
                      !.step = "fetch",
                      !.log = Logged(call,
                          << Event(Paths[call.path], "fail", e, body),
                             Event(Paths[Len(Paths)], "start", "", <<>>) >>)]
    ELSE [call EXCEPT !.path = 0,
                      !.step = "done",
                      !.log = Logged(call,
                          << Event(Paths[call.path], "fail", e, body) >>),
                      !.result = Throw(e)]

\* fetchTextCatch with the inner catch missing: the wrapped relay's failure
\* is the call's
fetchTextCatchNoRaw(call, e, body) ==
    IF call.path < 2
    THEN [call EXCEPT !.path = @ + 1,
                      !.step = "fetch",
                      !.log = Logged(call,
                          << Event(Paths[call.path], "fail", e, body),
                             Event(Paths[call.path + 1], "start", "", <<>>) >>)]
    ELSE [call EXCEPT !.path = 0,
                      !.step = "done",
                      !.log = Logged(call,
                          << Event(Paths[call.path], "fail", e, body) >>),
                      !.result = Throw(e)]

\* fetchText: an attempt threw e (having received body); the catch blocks
\* try the next relay, and the third relay's failure is the call's
fetchTextCatch(call, e, body) ==
    IF call.path < Len(Paths)
    THEN [call EXCEPT !.path = @ + 1,
                      !.step = "fetch",
                      !.log = Logged(call,
                          << Event(Paths[call.path], "fail", e, body),
                             Event(Paths[call.path + 1], "start", "", <<>>) >>)]
    ELSE [call EXCEPT !.path = 0,
                      !.step = "done",
                      !.log = Logged(call,
                          << Event(Paths[call.path], "fail", e, body) >>),
                      !.result = Throw(e)]

\* fetchVia*: the continuation of `await fetch(...)`; answer is "rejected"
\* (network error), "http" (r.ok false) or "ok"
fetchViaResponse(call, answer) ==
    IF answer = "rejected"
    THEN fetchTextCatch(call, Paths[call.path] \o " rejected", <<>>)
    ELSE IF answer = "http"
    THEN fetchTextCatch(call, Paths[call.path] \o " HTTP", <<>>)
    ELSE [call EXCEPT !.step = "body"]

\* fetchViaAllOriginsGet without its check for an empty payload
fetchViaAllOriginsGetNoEmptyCheck(contents) == decodeDataPayload(contents)

\* fetchViaAllOriginsGet after `await r.json()`
fetchViaAllOriginsGet(contents) ==
    LET d == decodeDataPayload(contents) IN
    IF ~d.ok THEN d
    ELSE IF d.val = <<>> THEN Throw("AllOrigins/get empty")
    ELSE d

\* fetchVia*: the continuation of r.text() / r.json(); body is a completion
fetchViaBody(call, body) ==
    IF ~body.ok THEN fetchTextCatch(call, body.err, <<>>)
    ELSE IF Paths[call.path] # "AllOrigins/get"
    THEN fetchTextReturn(call, body.val, body.val)
    ELSE LET d == fetchViaAllOriginsGet(body.val) IN
         IF d.ok THEN fetchTextReturn(call, d.val, body.val)
         ELSE fetchTextCatch(call, d.err, body.val)

(***************************************************************************)
(* loadTicker.                                                             *)
(***************************************************************************)
DjiaCall == NumTickers + 1
CallIds == 1..(NumTickers + 1)
BtcRequest == << 0, 0 >>

\* fetchFred after `await fetchText(url)`
fetchFred(text) ==
    IF ~text.ok THEN text
    ELSE LET pts == parseFredCsv(text.val) IN
         IF Len(pts) = 0 THEN Throw("No data") ELSE Ret(pts)

\* the direction argument of updateSpans
Direction(pct) ==
    IF pct.k = "null" THEN "null"
    ELSE IF GeZero(pct) THEN "up" ELSE "down"

Update(attr, text, direction) ==
    [attr |-> attr, text |-> text, direction |-> direction]

\* the callback of results.forEach on a fulfilled result: the updateSpans
\* calls it makes for the points pts of the ticker cfg
SeriesRender(cfg, pts) ==
    LET pair == latestPair(pts) IN
    IF pair.latest.isNull THEN <<>>
    ELSE LET val == Fin(pair.latest.value, 1)
             prev == Fin(pair.previous.value, 1)
             pct == IF ~pair.previous.isNull
                    THEN Times100(Divide(Minus(val, prev), MathAbs(prev)))
                    ELSE Null IN
         << Update(cfg.attr,
                   fmtTicker(cfg.label, val, cfg.decimals, cfg.suffix, pct).val,
                   Direction(pct)) >>

\* SeriesUpdate blanking the targets of a ticker whose fetch was rejected
SeriesUpdateBlanks(cfg, r) ==
    IF ~r.ok THEN << Update(cfg.attr, <<>>, "null") >>
    ELSE SeriesRender(cfg, r.val)

\* the callback of results.forEach: the updateSpans calls it makes for the
\* settled result r of the ticker cfg
SeriesUpdate(cfg, r) ==
    IF ~r.ok THEN <<>>
    ELSE SeriesRender(cfg, r.val)

\* SeriesUpdates going through the results from the last to the first
RECURSIVE SeriesUpdatesReversed(_, _)
SeriesUpdatesReversed(cs, i) ==
    IF i > NumTickers THEN <<>>
    ELSE SeriesUpdatesReversed(cs, i + 1)
         \o SeriesUpdate(Cfg(i), fetchFred(cs[i].result))

\* results.forEach over the settled results of tickers i..NumTickers
RECURSIVE SeriesUpdates(_, _)
SeriesUpdates(cs, i) ==
    IF i > NumTickers THEN <<>>
    ELSE SeriesUpdate(Cfg(i), fetchFred(cs[i].result))
         \o SeriesUpdates(cs, i + 1)

RECURSIVE ApplyUpdates(_, _)
ApplyUpdates(d, ups) ==
    IF ups = <<>> THEN d
    ELSE ApplyUpdates(updateSpans(d, Head(ups).attr, Head(ups).text,
                                  Head(ups).direction), Tail(ups))

\* CoinGecko documents: d.bitcoin present or not, and its two fields
BtcDoc(bitcoin, usd, change) ==
    [bitcoin |-> bitcoin, usd |-> usd, usd_24h_change |-> change]

BtcDocs ==
    { BtcDoc(TRUE, Fin(50000, 1), Fin(5, 2)),
      BtcDoc(TRUE, Fin(50000, 1), Undefined),
      BtcDoc(TRUE, Undefined, Fin(5, 2)),
      BtcDoc(FALSE, Undefined, Undefined) }

\* the BTC block after `await resp.json()`: the updateSpans calls it makes
\* (an exception is swallowed by the catch)
BtcUpdate(d) ==
    IF ~d.bitcoin THEN <<>>
    ELSE LET price == d.usd
             chg == d.usd_24h_change
             arrow == IF GeZero(chg) THEN UpGlyph ELSE DownGlyph
             f == ToLocaleString(price, 0) IN
         IF ~f.ok THEN <<>>
         ELSE << Update("BTC",
                        << "BTC", " " >> \o f.val \o << " ", arrow >>
                        \o ToFixed2(MathAbs(chg)) \o << "%" >>,
                        IF GeZero(chg) THEN "up" ELSE "down") >>

\* a || b
Or(a, b) == IF Truthy(a) THEN a ELSE b

\* the DJIA block after `await fetchText(...)`: the updateSpans calls it
\* makes (an exception is swallowed by the catch)
DjiaUpdate(raw) ==
    IF ~raw.ok THEN <<>>
    ELSE LET res == ChartResult(raw.val) IN
         IF ~res.ok THEN <<>>
         ELSE LET p == res.val.regularMarketPrice
                  prev == Or(res.val.chartPreviousClose, res.val.previousClose)
                  pct2 == IF Truthy(prev)
                          THEN Times100(Divide(Minus(p, prev), ToNum(prev)))
                          ELSE Null
                  t == fmtTicker("DJIA", p, 0, "", pct2) IN
              IF ~t.ok THEN <<>>
              ELSE << Update("DJIA", t.val, Direction(pct2)) >>

\* the static page: placeholder text; one element carries a class already
Placeholder ==
    [e \in Elements |->
        [text |-> << ElementKey(e), " ", "--" >>,
         classes |-> IF e = 1 THEN {"tick--down"} ELSE {}]]

\* the parts of the site that a specification leaves alone
FredIdle == [lines |-> <<>>, csv |-> <<>>, out |-> Pending]

PairIdle == [arg |-> <<>>, pts |-> <<>>, out |-> Pending]

\* two passes of loadTicker on one page, the first started first
Passes == {1, 2}
Stages == {"series", "btc", "djia"}

PassIdle == [pc |-> "init", calls |-> [c \in CallIds |-> IdleCall],
             btcOk |-> FALSE]
PassesIdle == [p \in Passes |-> PassIdle]
LastRunIdle == [g \in Stages |-> 0]

SteamRequests == {"GetOwnedGames", "GetRecentlyPlayedGames",
                  "GetPlayerSummaries"}
SteamReqIdle == [step |-> "idle", status |-> "none", response |-> "none"]
SteamIdle == [pc |-> "off", key |-> "unset", id |-> "unset",
              reqs |-> [r \in SteamRequests |-> SteamReqIdle],
              owned |-> <<>>, output |-> <<>>,
              written |-> FALSE, exit |-> -1]

NumToggles == 2    \* toggle buttons of the page
Toggles == 1..NumToggles
NavIdle == [pc |-> "off", present |-> FALSE, installed |-> FALSE,
            open |-> FALSE, aria |-> [t \in Toggles |-> "none"],
            focus |-> 0, log |-> <<>>]

SideIdle ==
    /\ fred = FredIdle
    /\ pairCall = PairIdle
    /\ passes = PassesIdle
    /\ lastRun = LastRunIdle
    /\ steam = SteamIdle
    /\ nav = NavIdle

Init ==
    /\ dIn = <<>>
    /\ dOut = Pending
    /\ calls = [c \in CallIds |-> IdleCall]
    /\ btc = "idle"
    /\ pc = "init"
    /\ dom = Placeholder
    /\ dom0 = Placeholder
    /\ updates = <<>>
    /\ hung = {}
    /\ tape \in BOOLEAN
    /\ trace = {}
    /\ settled = <<>>
    /\ SideIdle

\* Start calling loadTicker whether or not the page holds a ticker tape
StartUnconditional ==
    /\ pc = "init"
    /\ calls' = [c \in CallIds |->
                    IF c \in Tickers THEN StartCall ELSE IdleCall]
    /\ pc' = "series"
    /\ UNCHANGED <<decodeVars, sideVars, pageVars, btc, dom, dom0, updates,
                   settled>>

\* Init of ticker.js: loadTicker runs up to its first await
Start ==
    /\ pc = "init"
    /\ IF tape
       THEN /\ calls' = [c \in CallIds |->
                            IF c \in Tickers THEN StartCall ELSE IdleCall]
            /\ pc' = "series"
       ELSE /\ pc' = "off"
            /\ UNCHANGED calls
    /\ UNCHANGED <<decodeVars, sideVars, pageVars, btc, dom, dom0, updates, settled>>

\* the completion order after call c has become call
Settled(c, call) ==
    IF "completions" \in trace /\ c \in Tickers /\ call.step = "done"
    THEN Append(settled, c)
    ELSE settled

\* a relay answers (or fails to answer) the request of call c
RelayResponse(c, answer) ==
    /\ calls[c].step = "fetch"
    /\ << c, calls[c].path >> \notin hung
    /\ calls' = [calls EXCEPT ![c] = fetchViaResponse(calls[c], answer)]
    /\ settled' = Settled(c, calls'[c])
    /\ UNCHANGED <<decodeVars, sideVars, pageVars, btc, pc, dom, dom0, updates>>

\* what a relay's answer can carry for call c on its current path
Bodies(c) ==
    LET texts == IF c = DjiaCall THEN ChartBodies ELSE CsvBodies
        err == Throw(Paths[calls[c].path] \o " body") IN
    IF Paths[calls[c].path] = "AllOrigins/get"
    THEN {err} \cup {Ret(x) : x \in texts \cup Wrappings}
    ELSE {err} \cup {Ret(x) : x \in texts}

\* the body of a relay's answer arrives
RelayBody(c) ==
    /\ calls[c].step = "body"
    /\ \E body \in Bodies(c) :
          calls' = [calls EXCEPT ![c] = fetchViaBody(calls[c], body)]
    /\ settled' = Settled(c, calls'[c])
    /\ UNCHANGED <<decodeVars, sideVars, pageVars, btc, pc, dom, dom0, updates>>

\* Promise.allSettled resolves; results.forEach; the BTC request is sent
RenderSeries ==
    /\ pc = "series"
    /\ \A c \in Tickers : calls[c].step = "done"
    /\ LET ups == SeriesUpdates(calls, 1) IN
       /\ dom' = ApplyUpdates(dom, ups)
       /\ updates' = updates \o ups
    /\ btc' = "fetch"
    /\ pc' = "btc"
    /\ UNCHANGED <<decodeVars, sideVars, pageVars, calls, dom0, settled>>

\* the DJIA block starts: fetchText runs up to its first await
StartDjia == [calls EXCEPT ![DjiaCall] = StartCall]

\* CoinGecko answers (or fails to answer)
BtcResponse(answer) ==
    /\ pc = "btc"
    /\ BtcRequest \notin hung
    /\ IF answer = "ok"
       THEN /\ btc' = "json"
            /\ pc' = "btcjson"
            /\ UNCHANGED calls
       ELSE /\ btc' = "done"
            /\ pc' = "djia"
            /\ calls' = StartDjia
    /\ UNCHANGED <<decodeVars, sideVars, pageVars, dom, dom0, updates, settled>>

\* resp.json() settles; the rest of the BTC block; the DJIA block starts
BtcJson(doc) ==
    /\ pc = "btcjson"
    /\ LET ups == IF doc.ok THEN BtcUpdate(doc.val) ELSE <<>> IN
       /\ dom' = ApplyUpdates(dom, ups)
       /\ updates' = updates \o ups
    /\ btc' = "done"
    /\ pc' = "djia"
    /\ calls' = StartDjia
    /\ UNCHANGED <<decodeVars, sideVars, pageVars, dom0, settled>>

\* fetchText of the DJIA block has settled; the rest of the block
RenderDjia ==
    /\ pc = "djia"
    /\ calls[DjiaCall].step = "done"
    /\ LET ups == DjiaUpdate(calls[DjiaCall].result) IN
       /\ dom' = ApplyUpdates(dom, ups)
       /\ updates' = updates \o ups
    /\ pc' = "done"
    /\ UNCHANGED <<decodeVars, sideVars, pageVars, calls, btc, dom0, settled>>

Answers == {"rejected", "http", "ok"}

Next ==
    \/ Start
    \/ \E c \in CallIds, answer \in Answers : RelayResponse(c, answer)
    \/ \E c \in CallIds : RelayBody(c)
    \/ RenderSeries
    \/ \E answer \in Answers : BtcResponse(answer)
    \/ \E doc \in {Throw("SyntaxError")} \cup {Ret(d) : d \in BtcDocs} :
          BtcJson(doc)
    \/ RenderDjia

Spec == Init /\ [][Next]_vars

(***************************************************************************)
(* decodeDataPayload on its own: one call on a text made of a head and a   *)
(* payload of at most MaxPayload characters.                               *)
(***************************************************************************)
PayloadChars == {"Q", "U", "=", "%", "4", "1", "C", "!"}

RECURSIVE Payloads(_)
Payloads(n) ==
    IF n = 0 THEN {<<>>}
    ELSE LET shorter == Payloads(n - 1) IN
         shorter \cup {Append(p, ch) : p \in shorter, ch \in PayloadChars}

Heads ==
    { <<>>,
      << "x" >>,
      << "x" >> \o DataPrefix \o << "," >>,
      DataPrefix,
      DataPrefix \o << "," >>,
      DataPrefix \o Base64Mark,
      DataPrefix \o Base64Mark \o << "," >> }

InitDecode ==
    /\ dIn \in {h \o p : h \in Heads, p \in Payloads(MaxPayload)}
    /\ dOut = Pending
    /\ calls = [c \in CallIds |-> IdleCall]
    /\ btc = "idle"
    /\ pc = "off"
    /\ dom = Placeholder
    /\ dom0 = Placeholder
    /\ updates = <<>>
    /\ hung = {}
    /\ tape = FALSE
    /\ trace = {}
    /\ settled = <<>>
    /\ SideIdle

Decode ==
    /\ dOut = Pending
    /\ dOut' = decodeDataPayload(dIn)
    /\ UNCHANGED <<dIn, sideVars, pageVars, calls, btc, pc, dom, dom0, updates, settled>>

SpecDecode == InitDecode /\ [][Decode]_vars

(***************************************************************************)
(* fetchText on its own: two calls, one for a series and one for the       *)
(* chart, with their requests logged.                                      *)
(***************************************************************************)
InitFetch ==
    /\ dIn = <<>>
    /\ dOut = Pending
    /\ trace = {"requests"}
    /\ settled = <<>>
    /\ SideIdle
    /\ calls = [c \in CallIds |->
                   IF c \in {1, DjiaCall} THEN StartCall ELSE IdleCall]
    /\ btc = "idle"
    /\ pc = "off"
    /\ dom = Placeholder
    /\ dom0 = Placeholder
    /\ updates = <<>>
    /\ hung = {}
    /\ tape = FALSE

NextFetch ==
    \/ \E c \in CallIds, answer \in Answers : RelayResponse(c, answer)
    \/ \E c \in CallIds : RelayBody(c)

SpecFetch == InitFetch /\ [][NextFetch]_vars

(***************************************************************************)
(* Properties of fetchText, on the logs of SpecFetch.                      *)
(***************************************************************************)
Starts(L) == SelectSeq(L, LAMBDA e : e.ev = "start")
Ends(L) == SelectSeq(L, LAMBDA e : e.ev # "start")
FailedPaths(L) == {L[i].path : i \in {j \in 1..Len(L) : L[j].ev = "fail"}}

\* C1: the requests of a fetchText call go to Codetabs, AllOrigins/get,
\* AllOrigins/raw in this order, each at most once; a request is sent only
\* right after the failure of the request before it, so at most one is in
\* flight; nothing is sent after a success.
C1_SequentialFixedOrder ==
    \A c \in CallIds :
        LET L == calls[c].log IN
        /\ Len(Starts(L)) <= Len(Paths)
        /\ \A i \in 1..Len(Starts(L)) : Starts(L)[i].path = Paths[i]
        /\ Len(Starts(L)) - Len(Ends(L)) \in {0, 1}
        /\ \A i \in 2..Len(L) :
              L[i].ev = "start" =>
                  /\ L[i - 1].ev = "fail"
                  /\ Len(Starts(SubSeq(L, 1, i - 1)))
                        = Len(Ends(SubSeq(L, 1, i - 1)))
        /\ \A i \in 1..Len(L) : L[i].ev = "ok" => i = Len(L)

\* a call that went through all three relays and got its text from the last
C1_Witness ==
    \E c \in CallIds :
        /\ calls[c].step = "done"
        /\ Len(calls[c].log) = 6
        /\ calls[c].log[6] = Event(Paths[3], "ok", "", CsvUp)

\* C2: a settled fetchText call has failed exactly when each of the three
\* relays failed, and its error is then the one the raw relay's attempt
\* raised, never one raised by the first or second attempt.
C2_FailsIffAllFailed ==
    \A c \in CallIds :
        LET L == calls[c].log
            r == calls[c].result IN
        calls[c].step = "done" =>
            /\ ~r.ok <=> FailedPaths(L) = {Paths[1], Paths[2], Paths[3]}
            /\ ~r.ok =>
                  /\ L[Len(L)].path = Paths[3]
                  /\ L[Len(L)].ev = "fail"
                  /\ r.err = L[Len(L)].err
                  /\ \A i \in 1..Len(L) :
                        L[i].ev = "fail" /\ L[i].path # Paths[3]
                            => r.err # L[i].err

\* a call that failed, the wrapped relay having sent an undecodable payload
C2_Witness ==
    \E c \in CallIds :
        /\ calls[c].step = "done"
        /\ ~calls[c].result.ok
        /\ calls[c].log[4].err = "InvalidCharacterError"

\* C3: a failed attempt on the first or second relay is followed by a
\* request to the next relay; the wrapped relay never succeeds with an empty
\* payload; and when Codetabs answered with an HTTP error, the wrapped relay
\* with a base64-wrapped empty payload and the raw relay with a text, the
\* call returns exactly that text.
C3_EscalatesToRawText ==
    \A c \in CallIds :
        LET L == calls[c].log IN
        /\ \A i \in 1..Len(L) :
              L[i].ev = "fail" /\ L[i].path # Paths[3] =>
                  /\ i < Len(L)
                  /\ L[i + 1].ev = "start"
                  /\ \E k \in 1..2 : L[i].path = Paths[k]
                                     /\ L[i + 1].path = Paths[k + 1]
        /\ \A i \in 1..Len(L) :
              L[i].path = Paths[2] /\ L[i].ev = "ok"
                  => L[i].body \notin {<<>>, WrappedEmpty}
        /\ ( /\ Len(L) = 6
             /\ L[2] = Event(Paths[1], "fail", "Codetabs HTTP", <<>>)
             /\ L[4].body = WrappedEmpty
             /\ L[6].ev = "ok" )
           => /\ L[4].ev = "fail"
              /\ L[6].path = Paths[3]
              /\ calls[c].result = Ret(L[6].body)

\* the scenario: HTTP error, wrapped empty payload, CSV text from the raw relay
C3_Witness ==
    \E c \in CallIds :
        /\ calls[c].log =
              << Event(Paths[1], "start", "", <<>>),
                 Event(Paths[1], "fail", "Codetabs HTTP", <<>>),
                 Event(Paths[2], "start", "", <<>>),
                 Event(Paths[2], "fail", "AllOrigins/get empty", WrappedEmpty),
                 Event(Paths[3], "start", "", <<>>),
                 Event(Paths[3], "ok", "", CsvUp) >>
        /\ calls[c].result = Ret(CsvUp)

(***************************************************************************)
(* The series part of a pass, with the completion order recorded.          *)
(***************************************************************************)
InitSeries ==
    /\ dIn = <<>>
    /\ dOut = Pending
    /\ calls = [c \in CallIds |-> IdleCall]
    /\ btc = "idle"
    /\ pc = "init"
    /\ dom = Placeholder
    /\ dom0 = Placeholder
    /\ updates = <<>>
    /\ hung = {}
    /\ tape = TRUE
    /\ trace = {"completions"}
    /\ settled = <<>>
    /\ SideIdle

NextSeries ==
    \/ Start
    \/ \E c \in CallIds, answer \in Answers : RelayResponse(c, answer)
    \/ \E c \in CallIds : RelayBody(c)
    \/ RenderSeries

SpecSeries == InitSeries /\ [][NextSeries]_vars

(***************************************************************************)
(* A pass in which the first request of one series ticker may never        *)
(* settle.                                                                 *)
(***************************************************************************)
InitHang ==
    /\ dIn = <<>>
    /\ dOut = Pending
    /\ calls = [c \in CallIds |-> IdleCall]
    /\ btc = "idle"
    /\ pc = "init"
    /\ dom = Placeholder
    /\ dom0 = Placeholder
    /\ updates = <<>>
    /\ hung \in {{}} \cup {{<< c, 1 >>} : c \in Tickers}
    /\ tape = TRUE
    /\ trace = {}
    /\ settled = <<>>
    /\ SideIdle

SpecHang == InitHang /\ [][Next]_vars

(***************************************************************************)
(* Properties of loadTicker.                                               *)
(***************************************************************************)
PastSeries == pc \in {"btc", "btcjson", "djia", "done"}
PastBtc == pc \in {"djia", "done"}
SeriesOk(i) == fetchFred(calls[i].result).ok
ElementsOf(key) == {e \in Elements : ElementKey(e) = key}
Shown(key) == \A e \in ElementsOf(key) : dom[e] # dom0[e]
Untouched(key) == \A e \in ElementsOf(key) : dom[e] = dom0[e]
HasGlyph(t) == \E k \in 1..Len(t) : t[k] \in {UpGlyph, DownGlyph}
HasUpGlyph(t) == \E k \in 1..Len(t) : t[k] = UpGlyph
NotANumber(t) == \E k \in 1..Len(t) : t[k] \in {"NaN", "Infinity", "-Infinity"}
TickerOf(attr) == CHOOSE i \in Tickers : Cfg(i).attr = attr
Position(seq, x) == CHOOSE k \in 1..Len(seq) : seq[k] = x

\* C4: once the series results have been gone through, the targets of every
\* ticker whose fetch-and-parse succeeded show its new text (label and
\* latest value), the targets of every ticker whose fetch-and-parse failed
\* are as they were before the pass (text and classes), and updateSpans was
\* called for a series key only if its fetch-and-parse succeeded.
C4_FailuresAreIsolated ==
    PastSeries =>
        /\ \A i \in Tickers : \A e \in ElementsOf(Cfg(i).attr) :
              IF SeriesOk(i)
              THEN LET pts == fetchFred(calls[i].result).val IN
                   /\ dom[e].text # dom0[e].text
                   /\ dom[e].text[1] = Cfg(i).label
                   /\ dom[e].text[3] = ToString(pts[Len(pts)].value)
              ELSE dom[e] = dom0[e]
        /\ \A k \in 1..Len(updates) : \A i \in Tickers :
              updates[k].attr = Cfg(i).attr => SeriesOk(i)

\* three tickers, the fetch of the second rejected: the first and the third
\* are rendered, the second is as before
C4_Witness ==
    /\ pc = "btc"
    /\ SeriesOk(1)
    /\ ~calls[2].result.ok
    /\ SeriesOk(3)
    /\ Shown(Cfg(1).attr)
    /\ Untouched(Cfg(2).attr)
    /\ Shown(Cfg(3).attr)

OtherRequestFailed ==
    \/ \E c \in CallIds :
          /\ << c, 1 >> \notin hung
          /\ \/ calls[c].path > 1
             \/ calls[c].step = "done" /\ ~calls[c].result.ok
    \/ \E i \in Tickers : calls[i].step = "done" /\ ~SeriesOk(i)
    \/ PastBtc /\ ~Shown("BTC")
    \/ pc = "done" /\ ~Shown("DJIA")

\* every series ticker but the hung one, BTC and DJIA are rendered
OthersRendered ==
    /\ \A i \in Tickers : << i, 1 >> \notin hung => Shown(Cfg(i).attr)
    /\ Shown("BTC")
    /\ Shown("DJIA")

\* C6: when the first request of one series ticker never settles and no
\* other request fails, the pass does not come to rest before every other
\* series ticker, BTC and DJIA are rendered: until then some step of the
\* pass is still to come.
C6_HangDelaysOnlyThatTicker ==
    hung # {} => (OtherRequestFailed \/ OthersRendered \/ ENABLED Next)

\* C7: once the BTC block is over the DJIA fetch has been started, and the
\* BTC targets are as before the pass or show a text made from a price and a
\* change that are numbers; likewise the DJIA targets at the end of the pass.
C7_QuoteAndChartIsolated ==
    /\ PastBtc =>
          /\ calls[DjiaCall].step # "idle"
          /\ \A e \in ElementsOf("BTC") :
                dom[e] = dom0[e] \/ ~NotANumber(dom[e].text)
    /\ pc = "done" =>
          \A e \in ElementsOf("DJIA") :
                dom[e] = dom0[e] \/ ~NotANumber(dom[e].text)

\* C8: an updateSpans call whose text shows no finite percent has direction
\* null, one whose text shows a finite percent has direction up exactly when
\* the up-glyph is shown, and the targets of a series whose previous value
\* is 0 carry neither direction class.
C8_DirectionFollowsPercent ==
    /\ \A k \in 1..Len(updates) :
          LET u == updates[k] IN
          IF ~HasGlyph(u.text) \/ NotANumber(u.text)
          THEN u.direction = "null"
          ELSE u.direction = (IF HasUpGlyph(u.text) THEN "up" ELSE "down")
    /\ PastSeries =>
          \A i \in Tickers : \A e \in ElementsOf(Cfg(i).attr) :
              calls[i].result = Ret(CsvPrevZero)
                  => dom[e].classes \cap {"tick--up", "tick--down"} = {}

\* the text of a ticker without a percent
PlainText(label, value, decimals, suffix) ==
    << label, " ", ToString(value) >>
    \o (IF decimals > 0 THEN << "." >> \o Zeros(decimals) ELSE <<>>)
    \o (IF suffix # "" THEN << suffix >> ELSE <<>>)

\* C9: the text of a rendered series ticker is label, value and suffix alone
\* when there is no previous point or the previous value is 0, and carries
\* a glyph otherwise, the up-glyph exactly when latest >= previous; the
\* text of the rendered DJIA ticker is label and price alone when the prior
\* close is missing or 0, and carries a glyph otherwise, the up-glyph
\* exactly when the computed percent is >= 0.
C9_PercentOnlyWhenFinite ==
    /\ PastSeries =>
          \A i \in Tickers : \A e \in ElementsOf(Cfg(i).attr) :
              SeriesOk(i) =>
                  LET pair == latestPair(fetchFred(calls[i].result).val)
                      t == dom[e].text IN
                  IF pair.previous.isNull \/ pair.previous.value = 0
                  THEN t = PlainText(Cfg(i).label, pair.latest.value,
                                     Cfg(i).decimals, Cfg(i).suffix)
                  ELSE /\ HasGlyph(t)
                       /\ t[Len(t)] = "%"
                       /\ HasUpGlyph(t)
                             <=> pair.latest.value >= pair.previous.value
    /\ pc = "done" =>
          \A e \in ElementsOf("DJIA") :
              dom[e] # dom0[e] =>
                  LET meta == ChartResult(calls[DjiaCall].result.val).val
                      p == meta.regularMarketPrice
                      prev == Or(meta.chartPreviousClose, meta.previousClose)
                      t == dom[e].text IN
                  IF ~(prev.k = "fin" /\ prev.n # 0)
                  THEN t = PlainText("DJIA", p.n, 0, "")
                  ELSE /\ HasGlyph(t)
                       /\ t[Len(t)] = "%"
                       /\ HasUpGlyph(t) <=> GeZero(Divide(Minus(p, prev), prev))

\* a series with previous value 0 and a chart without a prior close, both
\* rendered without a percent
C9_Witness ==
    /\ pc = "done"
    /\ calls[1].result = Ret(CsvPrevZero)
    /\ calls[2].result = Ret(CsvSingle)
    /\ calls[3].result = Ret(CsvUp)
    /\ calls[DjiaCall].result = Ret(JsonNoPrev)
    /\ dom[1].text = << "10Y YIELD", " ", "5", ".", "0", "0", "0", "%" >>
    /\ HasUpGlyph(dom[3].text)
    /\ dom[NumTickers + 3].text = << "DJIA", " ", "110" >>

(***************************************************************************)
(* Property of decodeDataPayload, on SpecDecode.                           *)
(***************************************************************************)
\* C10: decodeDataPayload never raises, and returns its argument unchanged
\* when it does not begin with "data:" or holds no comma.
C10_DecodeNeverRaises ==
    dOut # Pending =>
        /\ dOut.ok
        /\ IndexOf(dIn, DataPrefix) # 0 \/ IndexOf(dIn, << "," >>) = -1
              => dOut = Ret(dIn)


(***************************************************************************)
(* fetchFred on its own: a csv text arrives and is parsed.                 *)
(***************************************************************************)
\* the page and the decodeDataPayload harness at rest
PageOff ==
    /\ dIn = <<>>
    /\ dOut = Pending
    /\ calls = [c \in CallIds |-> IdleCall]
    /\ btc = "idle"
    /\ pc = "off"
    /\ dom = Placeholder
    /\ dom0 = Placeholder
    /\ updates = <<>>
    /\ hung = {}
    /\ tape = FALSE
    /\ trace = {}
    /\ settled = <<>>

MaxLines == 3    \* most data lines of a csv text given to fetchFred

HeaderLine == << "D",",","V" >>
LineA == << "a",",","7" >>
LineB == << "b",",","-","3" >>
LineThree == << "g",",","5",",","z" >>
LineNoField == << "c" >>
LineDot == << "d",",","." >>
LineEmptyField == << "e","," >>
LineBlank == <<>>

DataLines == {LineA, LineB, LineThree, LineNoField, LineDot, LineEmptyField,
              LineBlank}

RECURSIVE LineSeqs(_)
LineSeqs(n) ==
    IF n = 0 THEN {<<>>}
    ELSE LET shorter == LineSeqs(n - 1) IN
         shorter \cup {Append(ls, l) : ls \in shorter, l \in DataLines}

Eols == {<< "\n" >>, << "\r", "\n" >>}

\* the text of a csv file: each line followed by its line ending
RECURSIVE JoinLines(_, _)
JoinLines(lines, eol) ==
    IF lines = <<>> THEN <<>>
    ELSE Head(lines) \o eol \o JoinLines(Tail(lines), eol)

InitFred ==
    /\ PageOff
    /\ pairCall = PairIdle
    /\ passes = PassesIdle
    /\ lastRun = LastRunIdle
    /\ steam = SteamIdle
    /\ nav = NavIdle
    /\ \E ls \in LineSeqs(MaxLines), eol \in Eols :
          fred = [lines |-> ls,
                  csv |-> JoinLines(<< HeaderLine >> \o ls, eol),
                  out |-> Pending]

\* fetchFred resumes with the text of fetchText
ParseFred ==
    /\ fred.out = Pending
    /\ fred' = [fred EXCEPT !.out = fetchFred(Ret(fred.csv))]
    /\ UNCHANGED <<mainVars, pairCall, overlapVars, steam, nav>>

SpecFred == InitFred /\ [][ParseFred]_vars

\* what C11 calls a valid data line, and the point it stands for
ValidLines == {LineA, LineB, LineThree}
ValidPoint(line) ==
    IF line = LineA THEN Point(<< "a" >>, 7)
    ELSE IF line = LineB THEN Point(<< "b" >>, -3)
    ELSE Point(<< "g" >>, 5)
ValidPoints(lines) ==
    LET kept == SelectSeq(lines, LAMBDA l : l \in ValidLines) IN
    [i \in 1..Len(kept) |-> ValidPoint(kept[i])]

\* C11: fetchFred on a header line followed by data lines returns the
\* points of the valid lines, one per valid line and in their order, the
\* lines with no second field, an empty second field or a second field that
\* is no finite number being dropped; it fails with 'No data' when no line
\* is valid.
C11_ParserKeepsValidLines ==
    fred.out # Pending =>
        IF ValidPoints(fred.lines) = <<>>
        THEN fred.out = Throw("No data")
        ELSE fred.out = Ret(ValidPoints(fred.lines))


(***************************************************************************)
(* latestPair on its own.                                                  *)
(***************************************************************************)
MaxPoints == 3    \* longest point series given to latestPair

\* points whose values and dates are in no order, with repeats
SomePoints == {Point(<< "a" >>, 5), Point(<< "b" >>, -2),
               Point(<< "a" >>, 0), Point(<< "c" >>, 5)}

RECURSIVE PointSeqs(_)
PointSeqs(n) ==
    IF n = 0 THEN {<<>>}
    ELSE LET shorter == PointSeqs(n - 1) IN
         shorter \cup {Append(ps, q) : ps \in shorter, q \in SomePoints}

InitPair ==
    /\ PageOff
    /\ fred = FredIdle
    /\ passes = PassesIdle
    /\ lastRun = LastRunIdle
    /\ steam = SteamIdle
    /\ nav = NavIdle
    /\ \E ps \in PointSeqs(MaxPoints) :
          pairCall = [arg |-> ps, pts |-> ps, out |-> Pending]

\* latestPair(pts): the array is read, never written
CallLatestPair ==
    /\ pairCall.out = Pending
    /\ pairCall' = [pairCall EXCEPT !.out = Ret(latestPair(pairCall.pts))]
    /\ UNCHANGED <<mainVars, fred, overlapVars, steam, nav>>

SpecPair == InitPair /\ [][CallLatestPair]_vars

\* C12: latestPair returns null and null for no point, the point and null
\* for one point, and the last and the last but one by position for two
\* points or more, whatever their values and dates; the array passed is as
\* it was.
C12_LastTwoByPosition ==
    pairCall.out # Pending =>
        LET n == Len(pairCall.arg)
            r == pairCall.out.val IN
        /\ pairCall.out.ok
        /\ pairCall.pts = pairCall.arg
        /\ n = 0 => r.latest = NoPoint /\ r.previous = NoPoint
        /\ n = 1 => r.latest = pairCall.arg[1] /\ r.previous = NoPoint
        /\ n >= 2 => r.latest = pairCall.arg[n] /\ r.previous = pairCall.arg[n - 1]

\* two points, the later one smaller and with the earlier date
C12_Witness ==
    /\ pairCall.arg = << Point(<< "c" >>, 5), Point(<< "a" >>, 0) >>
    /\ pairCall.out = Ret([latest |-> Point(<< "a" >>, 0),
                       previous |-> Point(<< "c" >>, 5)])


(***************************************************************************)
(* Further properties of loadTicker, on Spec.                              *)
(***************************************************************************)
\* the percent of C13 and the way a ticker text shows it
PercentChange(current, previous) ==
    Times100(Divide(Minus(current, previous), MathAbs(previous)))
PercentShown(pct) ==
    << " ", IF GeZero(pct) THEN UpGlyph ELSE DownGlyph >>
    \o ToFixed2(MathAbs(pct)) \o << "%" >>

\* C13: the percent shown for a rendered series ticker whose previous value
\* is not 0, and for the rendered DJIA ticker whose prior close is a number
\* other than 0, is (current - previous) / abs(previous) * 100, glyph and
\* figure.
C13_PercentOverAbsPrevious ==
    /\ PastSeries =>
          \A i \in Tickers : \A e \in ElementsOf(Cfg(i).attr) :
              SeriesOk(i) =>
                  LET lp == latestPair(fetchFred(calls[i].result).val) IN
                  ~lp.previous.isNull /\ lp.previous.value # 0 =>
                      dom[e].text =
                          PlainText(Cfg(i).label, lp.latest.value,
                                    Cfg(i).decimals, Cfg(i).suffix)
                          \o PercentShown(
                                 PercentChange(Fin(lp.latest.value, 1),
                                               Fin(lp.previous.value, 1)))
    /\ pc = "done" =>
          \A e \in ElementsOf("DJIA") :
              dom[e] # dom0[e] =>
                  LET meta == ChartResult(calls[DjiaCall].result.val).val
                      p == meta.regularMarketPrice
                      prev == Or(meta.chartPreviousClose, meta.previousClose)
                  IN
                  prev.k = "fin" /\ prev.n # 0 =>
                      dom[e].text = PlainText("DJIA", p.n, 0, "")
                                    \o PercentShown(PercentChange(p, prev))


\* C14: on a page without a .ticker-tape element the script ends at once,
\* raising nothing: no fetchText call is made and no request sent, the
\* CoinGecko request is not sent, updateSpans is not called and every
\* element is as it was.
C14_NoTapeNoRun ==
    ~tape =>
        /\ pc \in {"init", "off"}
        /\ \A c \in CallIds : calls[c] = IdleCall
        /\ btc = "idle"
        /\ updates = <<>>
        /\ dom = dom0

\* the script has run on a page without a ticker tape
C14_Witness ==
    /\ ~tape
    /\ pc = "off"
    /\ dom = Placeholder


(***************************************************************************)
(* updateSpans on its own: calls with any key, text and direction on a     *)
(* page whose elements carry classes already.                              *)
(***************************************************************************)
MaxCalls == 2    \* most updateSpans calls in a row

\* the classes of the first element before the calls
ClassSets == {{}, {"tick--down"}, {"tick--up"}, {"tick", "tick--up"},
              {"tick--up", "tick--down"}}

SpanKeys == {Cfg(1).attr, "BTC", "NOKEY"}
SpanTexts == {<< "A", " ", "1" >>, << "B", " ", "2" >>}
SpanDirections == {"up", "down", "null"}

InitSpans ==
    /\ dIn = <<>>
    /\ dOut = Pending
    /\ calls = [c \in CallIds |-> IdleCall]
    /\ btc = "idle"
    /\ pc = "off"
    /\ \E cs \in ClassSets :
          dom = [Placeholder EXCEPT ![1].classes = cs]
    /\ dom0 = dom
    /\ updates = <<>>
    /\ hung = {}
    /\ tape = FALSE
    /\ trace = {}
    /\ settled = <<>>
    /\ SideIdle

CallUpdateSpans(attr, text, direction) ==
    /\ pc = "off"
    /\ Len(updates) < MaxCalls
    /\ dom' = updateSpans(dom, attr, text, direction)
    /\ updates' = Append(updates, Update(attr, text, direction))
    /\ UNCHANGED <<decodeVars, sideVars, pageVars, calls, btc, pc, dom0,
                   settled>>

NextSpans ==
    \E attr \in SpanKeys, text \in SpanTexts, direction \in SpanDirections :
        CallUpdateSpans(attr, text, direction)

SpecSpans == InitSpans /\ [][NextSpans]_vars

DirectionClasses == {"tick--up", "tick--down"}

\* C15: a call updateSpans(key, text, direction) gives every element bound
\* to key the text, leaves its other classes alone and leaves it with
\* tick--up alone for up, tick--down alone for down and neither for null;
\* it leaves every element of another key as it was; and a call with the
\* arguments of the call before it changes nothing.
C15_UpdateSpansContract ==
    [][ updates' # updates =>
           LET u == updates'[Len(updates')] IN
           /\ \A e \in Elements :
                 IF ElementKey(e) = u.attr
                 THEN /\ dom'[e].text = u.text
                      /\ dom'[e].classes \cap DirectionClasses =
                            (IF u.direction = "up" THEN {"tick--up"}
                             ELSE IF u.direction = "down" THEN {"tick--down"}
                             ELSE {})
                      /\ dom'[e].classes \ DirectionClasses =
                            dom[e].classes \ DirectionClasses
                 ELSE dom'[e] = dom[e]
           /\ updates # <<>> /\ updates[Len(updates)] = u => dom' = dom
      ]_vars

\* two identical calls with direction up on a key whose first element
\* carried tick--down and whose second carried nothing
C15_Witness ==
    /\ pc = "off"
    /\ Len(updates) = 2
    /\ updates[1] = updates[2]
    /\ updates[1].attr = Cfg(1).attr
    /\ updates[1].direction = "up"
    /\ dom0[1].classes = {"tick--down"}
    /\ dom[1].classes = {"tick--up"}
    /\ dom[NumTickers + 1].text = updates[1].text
    /\ dom[NumTickers + 2] = dom0[NumTickers + 2]


(***************************************************************************)
(* Two passes of loadTicker on one page (the script included twice): each  *)
(* pass has its own requests, the DOM is shared.  A fetchText call and     *)
(* the CoinGecko request settle in one step each; the data a pass          *)
(* receives is its own.                                                    *)
(***************************************************************************)
\* what pass p can receive for its calls and for its CoinGecko request
CsvOf(p) == IF p = 1 THEN CsvUp ELSE CsvPrevZero
ChartOf(p) == IF p = 1 THEN JsonFlat ELSE JsonDown
BtcDocOf(p) == IF p = 1 THEN BtcDoc(TRUE, Fin(50000, 1), Fin(5, 2))
               ELSE BtcDoc(TRUE, Fin(60000, 1), Fin(-5, 2))
FetchResults(p, c) ==
    {Throw("AllOrigins/raw HTTP"),
     Ret(IF c = DjiaCall THEN ChartOf(p) ELSE CsvOf(p))}
BtcResults(p) == {Throw("rejected"), Ret(BtcDocOf(p))}

InitOverlap ==
    /\ dIn = <<>>
    /\ dOut = Pending
    /\ calls = [c \in CallIds |-> IdleCall]
    /\ btc = "idle"
    /\ pc = "off"
    /\ dom = Placeholder
    /\ dom0 = Placeholder
    /\ updates = <<>>
    /\ hung = {}
    /\ tape = TRUE
    /\ trace = {}
    /\ settled = <<>>
    /\ SideIdle

\* loadTicker of pass p runs up to its first await
StartPass(p) ==
    /\ passes[p].pc = "init"
    /\ \A q \in Passes : q < p => passes[q].pc # "init"
    /\ passes' = [passes EXCEPT
                     ![p].pc = "series",
                     ![p].calls = [c \in CallIds |->
                                      IF c \in Tickers THEN StartCall
                                      ELSE IdleCall]]
    /\ UNCHANGED <<mainVars, fred, pairCall, lastRun, steam, nav>>

\* a fetchText call of pass p settles
SettleFetch(p, c) ==
    /\ passes[p].calls[c].step = "fetch"
    /\ \E r \in FetchResults(p, c) :
          passes' = [passes EXCEPT
                        ![p].calls[c] = [IdleCall EXCEPT !.step = "done",
                                                         !.result = r]]
    /\ UNCHANGED <<mainVars, fred, pairCall, lastRun, steam, nav>>

\* JoinSeries in which a pass renders nothing once a later pass has started
JoinSeriesAbortsSuperseded(p) ==
    /\ passes[p].pc = "series"
    /\ \A c \in Tickers : passes[p].calls[c].step = "done"
    /\ dom' = IF \E q \in Passes : q > p /\ passes[q].pc # "init"
              THEN dom
              ELSE ApplyUpdates(dom, SeriesUpdates(passes[p].calls, 1))
    /\ passes' = [passes EXCEPT ![p].pc = "btc"]
    /\ lastRun' = [lastRun EXCEPT !["series"] = p]
    /\ UNCHANGED <<decodeVars, pageVars, calls, btc, pc, dom0, updates,
                   settled, fred, pairCall, steam, nav>>

\* Promise.allSettled of pass p resolves; results.forEach; the CoinGecko
\* request of the pass is sent
JoinSeries(p) ==
    /\ passes[p].pc = "series"
    /\ \A c \in Tickers : passes[p].calls[c].step = "done"
    /\ dom' = ApplyUpdates(dom, SeriesUpdates(passes[p].calls, 1))
    /\ passes' = [passes EXCEPT ![p].pc = "btc"]
    /\ lastRun' = [lastRun EXCEPT !["series"] = p]
    /\ UNCHANGED <<decodeVars, pageVars, calls, btc, pc, dom0, updates,
                   settled, fred, pairCall, steam, nav>>

\* the CoinGecko request of pass p and its resp.json() settle; the rest of
\* the BTC block; the DJIA block starts
SettleBtc(p) ==
    /\ passes[p].pc = "btc"
    /\ \E doc \in BtcResults(p) :
          /\ dom' = ApplyUpdates(dom, IF doc.ok THEN BtcUpdate(doc.val)
                                      ELSE <<>>)
          /\ passes' = [passes EXCEPT
                           ![p].pc = "djia",
                           ![p].btcOk = doc.ok,
                           ![p].calls[DjiaCall] = StartCall]
    /\ lastRun' = [lastRun EXCEPT !["btc"] = p]
    /\ UNCHANGED <<decodeVars, pageVars, calls, btc, pc, dom0, updates,
                   settled, fred, pairCall, steam, nav>>

\* fetchText of the DJIA block of pass p has settled; the rest of the block
JoinDjia(p) ==
    /\ passes[p].pc = "djia"
    /\ passes[p].calls[DjiaCall].step = "done"
    /\ dom' = ApplyUpdates(dom, DjiaUpdate(passes[p].calls[DjiaCall].result))
    /\ passes' = [passes EXCEPT ![p].pc = "done"]
    /\ lastRun' = [lastRun EXCEPT !["djia"] = p]
    /\ UNCHANGED <<decodeVars, pageVars, calls, btc, pc, dom0, updates,
                   settled, fred, pairCall, steam, nav>>

NextOverlap ==
    \/ \E p \in Passes : StartPass(p)
    \/ \E p \in Passes, c \in CallIds : SettleFetch(p, c)
    \/ \E p \in Passes : JoinSeries(p)
    \/ \E p \in Passes : SettleBtc(p)
    \/ \E p \in Passes : JoinDjia(p)

SpecOverlap == InitOverlap /\ [][NextOverlap]_vars

\* the updateSpans calls of pass p for the key of element e, given what the
\* pass received
StageOf(e) == IF ElementKey(e) = "BTC" THEN "btc"
              ELSE IF ElementKey(e) = "DJIA" THEN "djia"
              ELSE "series"
PassUpdates(p, e) ==
    LET all == SeriesUpdates(passes[p].calls, 1)
               \o (IF passes[p].btcOk THEN BtcUpdate(BtcDocOf(p)) ELSE <<>>)
               \o DjiaUpdate(passes[p].calls[DjiaCall].result) IN
    SelectSeq(all, LAMBDA u : u.attr = ElementKey(e))
Other(p) == CHOOSE q \in Passes : q # p

\* a step of pass p can be taken: one of the guards of SettleFetch,
\* JoinSeries, SettleBtc and JoinDjia holds
PassHasStep(p) ==
    \/ \E c \in CallIds : passes[p].calls[c].step = "fetch"
    \/ /\ passes[p].pc = "series"
       /\ \A c \in Tickers : passes[p].calls[c].step = "done"
    \/ passes[p].pc = "btc"
    \/ /\ passes[p].pc = "djia"
       /\ passes[p].calls[DjiaCall].step = "done"

\* C16: while a pass is unfinished and none of its requests is outstanding
\* for ever, a step of it is to come; and once both passes are finished,
\* every element is as before when neither pass had a result for its key,
\* shows the text of the one pass that had one, and, when both had one,
\* shows the text of the pass that went through that stage last, whichever
\* pass started first.
C16_LastAppliedWins ==
    /\ \A p \in Passes :
          passes[p].pc \notin {"init", "done"} => PassHasStep(p)
    /\ (\A p \in Passes : passes[p].pc = "done") =>
          \A e \in Elements :
              LET last == lastRun[StageOf(e)]
                  mine == PassUpdates(last, e)
                  theirs == PassUpdates(Other(last), e) IN
              IF mine # <<>> THEN dom[e].text = mine[1].text
              ELSE IF theirs # <<>> THEN dom[e].text = theirs[1].text
              ELSE dom[e] = dom0[e]

\* both passes had every result; the first pass, started first, went last
\* through the series stage and shows its series texts, the second pass
\* went last through the BTC stage and shows its BTC text
C16_Witness ==
    /\ \A p \in Passes : passes[p].pc = "done"
    /\ \A p \in Passes : \A e \in Elements : PassUpdates(p, e) # <<>>
    /\ lastRun["series"] = 1
    /\ lastRun["btc"] = 2
    /\ dom[1].text = PassUpdates(1, 1)[1].text
    /\ dom[1].text # PassUpdates(2, 1)[1].text
    /\ dom[NumTickers + 2].text = PassUpdates(2, NumTickers + 2)[1].text
    /\ dom[NumTickers + 2].text # PassUpdates(1, NumTickers + 2)[1].text


\* C17: loadTicker comes to its end once every request has settled, and at
\* its end every element is as it was before the pass or shows a text made
\* of numbers: the one thing a failed or malformed answer does is to leave
\* the text of its ticker as it was.
C17_FailuresLeaveStaleTextOnly ==
    /\ pc \in {"series", "btc", "btcjson", "djia"} =>
          \/ \E c \in CallIds : calls[c].step \in {"fetch", "body"}
          \/ btc \in {"fetch", "json"}
          \/ pc = "series" /\ \A c \in Tickers : calls[c].step = "done"
          \/ pc = "djia" /\ calls[DjiaCall].step = "done"
    /\ pc = "done" =>
          \A e \in Elements :
              \/ dom[e] = dom0[e]
              \/ /\ ~NotANumber(dom[e].text)
                 /\ \E k \in 1..Len(updates) :
                       /\ updates[k].attr = ElementKey(e)
                       /\ updates[k].text = dom[e].text


(***************************************************************************)
(* steam-fetch.js (src/steam-fetch.js): the build-time script.  The        *)
(* process reads its two credentials, sends three requests at once, and    *)
(* writes steam-data.json when all three have answered.  exit is -1 while  *)
(* the process runs.                                                       *)
(***************************************************************************)
EnvValues == {"unset", "empty", "set"}

InitSteam ==
    /\ PageOff
    /\ fred = FredIdle
    /\ pairCall = PairIdle
    /\ passes = PassesIdle
    /\ lastRun = LastRunIdle
    /\ nav = NavIdle
    /\ \E k \in EnvValues, i \in EnvValues :
          steam = [SteamIdle EXCEPT !.pc = "start", !.key = k, !.id = i]

\* process.exit(code)
Exit(st, code) == [st EXCEPT !.pc = "exited", !.exit = code]

\* the credential check, then main up to `await Promise.all`: each of the
\* three functions runs up to its fetch
SteamStart ==
    /\ steam.pc = "start"
    /\ steam' = IF steam.key # "set" \/ steam.id # "set"
                THEN Exit(steam, 1)
                ELSE [steam EXCEPT
                         !.pc = "await",
                         !.reqs = [r \in SteamRequests |->
                                      [SteamReqIdle EXCEPT !.step = "fetch"]]]
    /\ UNCHANGED <<mainVars, fred, pairCall, overlapVars, nav>>

\* steamGet going on to res.json() whatever the status
steamGetNoStatusCheck(req, answer) ==
    IF answer = "rejected" THEN [req EXCEPT !.step = "failed"]
    ELSE [req EXCEPT !.step = "json", !.status = answer]

\* steamGet (and getPlayerSummary) after `await fetch(url)`
steamGet(req, answer) ==
    IF answer = "rejected" THEN [req EXCEPT !.step = "failed"]
    ELSE IF answer = "http"
         THEN [req EXCEPT !.step = "failed", !.status = "http"]
    ELSE [req EXCEPT !.step = "json", !.status = "ok"]

\* the process after request r has become req: a rejected request rejects
\* Promise.all, and the catch of main exits with 1
AfterRequest(r, req) ==
    LET st == [steam EXCEPT !.reqs[r] = req] IN
    IF req.step = "failed" THEN Exit(st, 1) ELSE st

\* the Steam API answers (or fails to answer) request r
SteamResponse(r, answer) ==
    /\ steam.pc = "await"
    /\ steam.reqs[r].step = "fetch"
    /\ steam' = AfterRequest(r, steamGet(steam.reqs[r], answer))
    /\ UNCHANGED <<mainVars, fred, pairCall, overlapVars, nav>>

\* what res.json() can give: a syntax error, a document without a response
\* field, a document with one
SteamDocs == {"SyntaxError", "no response", "response"}

\* the rest of getOwnedGames, getRecentlyPlayed and getPlayerSummary:
\* data.response, or data.response.players[0] || {}; only the content of
\* the owned-games response is kept (steam.owned), main computing nothing
\* but copies from the other two
SteamDocument(r, req, doc) ==
    IF doc = "SyntaxError" THEN [req EXCEPT !.step = "failed"]
    ELSE IF doc = "no response"
         THEN IF r = "GetPlayerSummaries"
              THEN [req EXCEPT !.step = "failed"]
              ELSE [req EXCEPT !.step = "done", !.response = "undefined"]
    ELSE [req EXCEPT !.step = "done", !.response = "object"]

\* res.json() of request r settles; data.response of the owned-games
\* document is one of Responses
SteamJson(r, doc, Responses) ==
    /\ steam.pc = "await"
    /\ steam.reqs[r].step = "json"
    /\ \E resp \in IF r = "GetOwnedGames" /\ doc = "response"
                   THEN Responses ELSE {steam.owned} :
          steam' = [AfterRequest(r, SteamDocument(r, steam.reqs[r], doc))
                       EXCEPT !.owned = resp]
    /\ UNCHANGED <<mainVars, fred, pairCall, overlapVars, nav>>

(***************************************************************************)
(* The owned-games response and what main computes from it (lines 76-93    *)
(* and 106-119).  A game is a record with an appid and, unless the field   *)
(* is missing, playtime_forever in minutes; the response has a games list  *)
(* and a game_count, either of which may be missing.                       *)
(***************************************************************************)
MaxGames == 3      \* games of a list written out in full
TopCount == 10     \* .slice(0, 10)

\* minutes played: none, under an hour, and the lower edge of each bucket
Playtimes == {0, 30, 60, 600, 3000, 6000}

\* a game of the response before its appid: with or without the field
GameKinds == {[playtime_forever |-> p] : p \in Playtimes} \cup {[name |-> "g"]}

\* the list of kinds ks as games, the appid of a game its place in the list
GamesOf(ks) == [i \in 1..Len(ks) |-> [appid |-> i] @@ ks[i]]

\* ks repeated from its start until the list has n entries
Cycle(ks, n) == [i \in 1..n |-> ks[((i - 1) % Len(ks)) + 1]]

ShortLists == UNION {[1..n -> GameKinds] : n \in 0..MaxGames}

\* every list of up to MaxGames games, and each of them repeated until it
\* is longer than the top list
GameLists ==
    {GamesOf(ks) : ks \in ShortLists}
    \cup {GamesOf(Cycle(ks, TopCount + Len(ks))) : ks \in ShortLists \ {<<>>}}

\* data.response of GetOwnedGames with one of the lists: {} (<<>>), or an
\* object with games, game_count or both; game_count is the length of the
\* list or any other small number
Responses(lists) ==
    {<<>>}
    \cup {[games |-> g] : g \in lists}
    \cup {[game_count |-> c] : c \in 0..MaxGames}
    \cup UNION {{[game_count |-> c, games |-> g] :
                    c \in (0..MaxGames) \cup {Len(g)}} : g \in lists}

OwnedResponses == Responses(GameLists)

\* the responses of the specification of the whole script: lists of one
\* game at most
SomeResponses ==
    Responses({GamesOf(ks) : ks \in UNION {[1..n -> GameKinds] : n \in 0..1}})

\* g.playtime_forever || 0
Minutes(g) ==
    IF "playtime_forever" \in DOMAIN g THEN g.playtime_forever ELSE 0

\* owned.games || []
gamesOrEmpty(o) == IF "games" \in DOMAIN o THEN o.games ELSE <<>>

\* owned.game_count || games.length
totalGames(o) ==
    IF "game_count" \in DOMAIN o /\ o.game_count # 0
    THEN o.game_count
    ELSE Len(gamesOrEmpty(o))

RECURSIVE totalMinutes(_)
\* games.reduce(sum + (g.playtime_forever || 0), 0)
totalMinutes(gs) ==
    IF gs = <<>> THEN 0 ELSE Minutes(Head(gs)) + totalMinutes(Tail(gs))

\* Math.round(minutes / 60), the minutes not negative
totalHours(gs) == (totalMinutes(gs) + 30) \div 60

\* Math.round(minutes / 60 * 10) / 10 in tenths of an hour (the playtimes
\* drawn are multiples of 6 minutes: no value falls on a half)
HoursTenths(g) == (Minutes(g) + 3) \div 6

RECURSIVE InsertByPlaytime(_, _)
\* g put into the sorted list s behind every game of at least its playtime
InsertByPlaytime(s, g) ==
    IF s = <<>> THEN <<g>>
    ELSE IF Minutes(Head(s)) >= Minutes(g)
         THEN <<Head(s)>> \o InsertByPlaytime(Tail(s), g)
    ELSE <<g>> \o s

RECURSIVE SortByPlaytime(_)
\* games.slice().sort((a, b) => (b.playtime_forever || 0) -
\* (a.playtime_forever || 0)): descending and stable
SortByPlaytime(gs) ==
    IF gs = <<>> THEN <<>>
    ELSE InsertByPlaytime(SortByPlaytime(SubSeq(gs, 1, Len(gs) - 1)),
                          gs[Len(gs)])

\* .slice(0, 10).map(...): appid and hours of the first ten (name and icon
\* are copied along and left out here)
topByPlaytime(gs) ==
    LET sorted == SortByPlaytime(gs)
        n == IF Len(sorted) < TopCount THEN Len(sorted) ELSE TopCount
    IN  [i \in 1..n |-> [appid |-> sorted[i].appid,
                         hours |-> HoursTenths(sorted[i])]]

\* games.filter(g => (g.playtime_forever || 0) > 0).length
playedCount(gs) == Cardinality({i \in 1..Len(gs) : Minutes(gs[i]) > 0})

BucketNames == {"100h+", "50-100h", "10-50h", "1-10h", "<1h"}

\* the bucket the forEach of lines 112-119 counts g in, h = minutes / 60
BucketOf(g) ==
    LET m == Minutes(g) IN
    IF m >= 100 * 60 THEN "100h+"
    ELSE IF m >= 50 * 60 THEN "50-100h"
    ELSE IF m >= 10 * 60 THEN "10-50h"
    ELSE IF m >= 1 * 60 THEN "1-10h"
    ELSE IF m > 0 THEN "<1h"
    ELSE "none"

\* buckets after the forEach
playtimeBuckets(gs) ==
    [b \in BucketNames |->
        Cardinality({i \in 1..Len(gs) : BucketOf(gs[i]) = b})]

\* the document written: stats and topByPlaytime (fetchedAt, profile and
\* recentlyPlayed come from the clock and the other two responses)
Output(o) ==
    LET gs == gamesOrEmpty(o) IN
    [stats |-> [totalGames |-> totalGames(o),
                totalHours |-> totalHours(gs),
                playedCount |-> playedCount(gs),
                neverPlayed |-> totalGames(o) - playedCount(gs),
                playtimeBuckets |-> playtimeBuckets(gs)],
     topByPlaytime |-> topByPlaytime(gs)]

\* Promise.all resolves: the aggregates, then writeFileSync; reading a
\* field of an undefined response throws, and so can writeFileSync
SteamMain ==
    /\ steam.pc = "await"
    /\ \A r \in SteamRequests : steam.reqs[r].step = "done"
    /\ \E wr \in {"ok", "EACCES"} :
          steam' =
              IF \/ steam.reqs["GetOwnedGames"].response = "undefined"
                 \/ steam.reqs["GetRecentlyPlayedGames"].response = "undefined"
                 \/ wr # "ok"
              THEN Exit(steam, 1)
              ELSE Exit([steam EXCEPT !.written = TRUE,
                                      !.output = Output(steam.owned)], 0)
    /\ UNCHANGED <<mainVars, fred, pairCall, overlapVars, nav>>

NextSteam ==
    \/ SteamStart
    \/ \E r \in SteamRequests, answer \in Answers : SteamResponse(r, answer)
    \/ \E r \in SteamRequests, doc \in SteamDocs :
          SteamJson(r, doc, SomeResponses)
    \/ SteamMain

SpecSteam == InitSteam /\ [][NextSteam]_vars

\* C18: with a credential missing the process exits with 1 having sent no
\* request; when a request is answered with an HTTP error status the
\* process exits with 1 at once, the file unwritten; and the file is
\* written only when all three requests have been answered with success,
\* which is the one way for the process to end with 0.
C18_AllOrNothing ==
    /\ steam.key # "set" \/ steam.id # "set" =>
          /\ \A r \in SteamRequests : steam.reqs[r] = SteamReqIdle
          /\ ~steam.written
          /\ steam.pc \in {"start", "exited"}
          /\ steam.pc = "exited" => steam.exit = 1
    /\ (\E r \in SteamRequests : steam.reqs[r].status = "http") =>
          /\ steam.pc = "exited"
          /\ steam.exit = 1
          /\ ~steam.written
    /\ steam.written =>
          \A r \in SteamRequests :
              steam.reqs[r].step = "done" /\ steam.reqs[r].status = "ok"
    /\ steam.exit = 0 => steam.written
    /\ steam.pc = "exited" <=> steam.exit \in {0, 1}

\* one request answered in full, a second answered with an HTTP error, the
\* third still outstanding: the process has exited with 1, nothing written
C18_Witness ==
    /\ steam.pc = "exited"
    /\ steam.exit = 1
    /\ ~steam.written
    /\ steam.reqs["GetOwnedGames"].step = "done"
    /\ steam.reqs["GetRecentlyPlayedGames"].status = "http"
    /\ steam.reqs["GetPlayerSummaries"].step = "fetch"


(***************************************************************************)
(* drawer.js (src/unnamed/part_001, lines 167-216; lines 218-255 are the   *)
(* same controller again, without its comments).  One controller on a      *)
(* page: the markup gives the drawer and the toggle buttons their state at *)
(* load, the controller changes it through setOpen only.                   *)
(***************************************************************************)
MaxEvents == 3    \* most events handled on a page

AriaValues == {"none", "false", "true"}

\* click targets: a toggle button (or an element in it), a link of the
\* drawer, the drawer off its links, the rest of the page; keys
ClickTargets == {<< "toggle", t >> : t \in Toggles}
                \cup {<< "link", 0 >>, << "inside", 0 >>, << "outside", 0 >>}
Keys == {"Escape", "a"}
InToggle(target) == target[1] = "toggle"
InLink(target) == target[1] = "link"
InDrawer(target) == target[1] \in {"link", "inside"}

InitNav ==
    /\ PageOff
    /\ fred = FredIdle
    /\ pairCall = PairIdle
    /\ passes = PassesIdle
    /\ lastRun = LastRunIdle
    /\ steam = SteamIdle
    /\ \E present \in BOOLEAN, open \in BOOLEAN,
          aria \in [Toggles -> AriaValues] :
          /\ open => present
          /\ nav = [pc |-> "load", present |-> present, installed |-> FALSE,
                    open |-> open, aria |-> aria, focus |-> 0, log |-> <<>>]

\* the script runs: without a drawer it returns, else the listeners are on
NavStart ==
    /\ nav.pc = "load"
    /\ nav' = [nav EXCEPT !.pc = "ready",
                          !.installed = nav.present /\ Toggles # {}]
    /\ UNCHANGED <<mainVars, fred, pairCall, overlapVars, steam>>

\* setOpen leaving the buttons alone
setOpenClassOnly(n, isOpen) == [n EXCEPT !.open = isOpen]

setOpen(n, isOpen) ==
    [n EXCEPT !.open = isOpen,
              !.aria = [t \in Toggles |-> IF isOpen THEN "true" ELSE "false"]]

\* the click listener of a toggle (it also stops the propagation)
toggleClick(n) == setOpen(n, ~n.open)

\* the click listener of a link of the drawer
linkClick(n) == setOpen(n, FALSE)

\* the click listener of the document closing on a click in the drawer too
documentClickIgnoresDrawer(n, target) ==
    IF ~InToggle(target) THEN setOpen(n, FALSE) ELSE n

\* the click listener of the document
documentClick(n, target) ==
    IF ~InDrawer(target) /\ ~InToggle(target) THEN setOpen(n, FALSE) ELSE n

\* the keydown listener of the document
keydown(n, key) ==
    IF key = "Escape" THEN [setOpen(n, FALSE) EXCEPT !.focus = 1] ELSE n

\* a click is dispatched: the listeners on the way from the target up to
\* the document, unless a toggle's listener stops the propagation
dispatchClick(n, target) ==
    LET n1 == IF InToggle(target) THEN toggleClick(n) ELSE n
        n2 == IF InLink(target) THEN linkClick(n1) ELSE n1 IN
    IF InToggle(target) THEN n2 ELSE documentClick(n2, target)

Click(target) ==
    /\ nav.pc = "ready"
    /\ Len(nav.log) < MaxEvents
    /\ nav' = [(IF nav.installed THEN dispatchClick(nav, target) ELSE nav)
                  EXCEPT !.log = Append(nav.log, << "click", target >>)]
    /\ UNCHANGED <<mainVars, fred, pairCall, overlapVars, steam>>

KeyDown(key) ==
    /\ nav.pc = "ready"
    /\ Len(nav.log) < MaxEvents
    /\ nav' = [(IF nav.installed THEN keydown(nav, key) ELSE nav)
                  EXCEPT !.log = Append(nav.log, << "keydown", key >>)]
    /\ UNCHANGED <<mainVars, fred, pairCall, overlapVars, steam>>

NextNav ==
    \/ NavStart
    \/ \E target \in ClickTargets : Click(target)
    \/ \E key \in Keys : KeyDown(key)

SpecNav == InitNav /\ [][NextNav]_vars

InSync == \A t \in Toggles : nav.aria[t] = "true" <=> nav.open

\* the events C19 names (toggle clicks, drawer-link clicks, outside clicks,
\* key presses) and those among them that reach setOpen
Named(ev) == ev[1] = "keydown" \/ ev[2][1] \in {"toggle", "link", "outside"}
Setting(ev) == IF ev[1] = "keydown" THEN ev[2] = "Escape"
               ELSE ev[2][1] \in {"toggle", "link", "outside"}

\* C19 as claimed: after one or more toggle clicks, drawer-link clicks,
\* outside clicks and key presses, aria-expanded of every toggle is "true"
\* exactly when the drawer is open.
C19_AriaInSyncAfterFirstEvent ==
    /\ nav.installed
    /\ nav.log # <<>>
    /\ \A k \in 1..Len(nav.log) : Named(nav.log[k])
    => InSync

\* C19 as amended: once a toggle click, a drawer-link click, an outside
\* click or an Escape key press has been handled, aria-expanded of every
\* toggle is "true" exactly when the drawer is open, whatever other events
\* are handled before and after it.
C19_AriaInSyncAfterFirstSetOpen ==
    /\ nav.installed
    /\ \E k \in 1..Len(nav.log) : Setting(nav.log[k])
    => InSync

\* markup with the drawer closed and a button marked expanded; a key other
\* than Escape, then a toggle click that opens the drawer, then a click in
\* the drawer off its links
C19_Witness ==
    /\ nav.installed
    /\ nav.log = << << "keydown", "a" >>, << "click", << "toggle", 2 >> >>,
                    << "click", << "inside", 0 >> >> >>
    /\ nav.open
    /\ \A t \in Toggles : nav.aria[t] = "true"


\* C20: with the controller installed, handling a click on a toggle flips
\* the open class of the drawer; handling a click on a link of the drawer,
\* a click outside the drawer and the toggles, or an Escape key press
\* leaves the drawer closed; handling a click in the drawer off its links
\* leaves the class as it was.
C20_EventsSetDrawerState ==
    [][ nav.installed /\ nav'.log # nav.log =>
           LET ev == nav'.log[Len(nav'.log)] IN
           IF ev[1] = "keydown"
           THEN ev[2] = "Escape" => ~nav'.open
           ELSE /\ ev[2][1] = "toggle" => nav'.open = ~nav.open
                /\ ev[2][1] \in {"link", "outside"} => ~nav'.open
                /\ ev[2][1] = "inside" => nav'.open = nav.open
      ]_vars

\* a click on the first toggle, a click in the drawer off its links and a
\* click on the second toggle, after which the drawer is closed: the first
\* click opened it, the second left it open, the third closed it
C20_Witness ==
    /\ nav.installed
    /\ nav.log = << << "click", << "toggle", 1 >> >>,
                    << "click", << "inside", 0 >> >>,
                    << "click", << "toggle", 2 >> >> >>
    /\ ~nav.open
    /\ \A t \in Toggles : nav.aria[t] = "false"


(***************************************************************************)
(* main of steam-fetch.js from the owned-games response on: both other     *)
(* requests have been answered in full and the owned-games document is     *)
(* about to be read, a state SpecSteam reaches.                            *)
(***************************************************************************)
InitStats ==
    /\ PageOff
    /\ fred = FredIdle
    /\ pairCall = PairIdle
    /\ passes = PassesIdle
    /\ lastRun = LastRunIdle
    /\ nav = NavIdle
    /\ steam = [SteamIdle EXCEPT
                   !.pc = "await", !.key = "set", !.id = "set",
                   !.reqs = [r \in SteamRequests |->
                                IF r = "GetOwnedGames"
                                THEN [step |-> "json", status |-> "ok",
                                      response |-> "none"]
                                ELSE [step |-> "done", status |-> "ok",
                                      response |-> "object"]]]

NextStats ==
    \/ SteamJson("GetOwnedGames", "response", OwnedResponses)
    \/ SteamMain

SpecStats == InitStats /\ [][NextStats]_vars

\* the games of the response the written document was computed from
OwnedGames == gamesOrEmpty(steam.owned)

\* the playtime in minutes a bucket stands for
InBucket(m, b) ==
    CASE b = "100h+"   -> m >= 6000
      [] b = "50-100h" -> m >= 3000 /\ m < 6000
      [] b = "10-50h"  -> m >= 600 /\ m < 3000
      [] b = "1-10h"   -> m >= 60 /\ m < 600
      [] b = "<1h"     -> m > 0 /\ m < 60

\* C21 (buckets): in the written document playedCount is the number of
\* games of the list with playtime above zero, each bucket counts the
\* games of its range, and the five buckets sum to playedCount.
C21_BucketsSumToPlayed ==
    steam.written =>
        LET stats == steam.output.stats
            b == stats.playtimeBuckets
        IN  /\ stats.playedCount =
                  Cardinality({i \in DOMAIN OwnedGames :
                                  Minutes(OwnedGames[i]) > 0})
            /\ \A n \in BucketNames :
                  b[n] = Cardinality({i \in DOMAIN OwnedGames :
                                         InBucket(Minutes(OwnedGames[i]), n)})
            /\ b["100h+"] + b["50-100h"] + b["10-50h"] + b["1-10h"] + b["<1h"]
                  = stats.playedCount

\* C21 (top list): topByPlaytime has at most 10 entries, each a game of the
\* list, in non-increasing order of playtime and of the hours shown.
C21_TopTenSorted ==
    steam.written =>
        LET top == steam.output.topByPlaytime IN
        /\ Len(top) <= 10
        /\ \A i \in DOMAIN top : top[i].appid \in DOMAIN OwnedGames
        /\ \A i, j \in DOMAIN top :
              i < j => /\ top[i].hours >= top[j].hours
                       /\ Minutes(OwnedGames[top[i].appid])
                             >= Minutes(OwnedGames[top[j].appid])

\* C21 (never played): neverPlayed is totalGames - playedCount and is not
\* negative.
C21_NeverPlayedNotNegative ==
    steam.written =>
        LET stats == steam.output.stats IN
        /\ stats.neverPlayed = stats.totalGames - stats.playedCount
        /\ stats.neverPlayed >= 0

\* C21: in the written document, for every owned-games list, the five
\* playtime buckets sum to playedCount, neverPlayed equals
\* totalGames - playedCount and is never negative, and topByPlaytime has at
\* most 10 entries in non-increasing order of playtime.
C21_StatsInvariants ==
    /\ C21_BucketsSumToPlayed
    /\ C21_NeverPlayedNotNegative
    /\ C21_TopTenSorted

\* C21, the case of the list reaching the cut: a document written from a
\* list of more than ten games, more than ten of them played
C21_LongListWritten ==
    /\ steam.written
    /\ Len(OwnedGames) > TopCount
    /\ steam.output.stats.playedCount > TopCount
    /\ Len(steam.output.topByPlaytime) = TopCount

\* C21 with game_count left out of the response or equal to the length of
\* the list: neverPlayed is then not negative.
C21_NotNegativeWhenCountIsLength ==
    (/\ steam.written
     /\ "game_count" \in DOMAIN steam.owned => 
            steam.owned.game_count = Len(OwnedGames))
    => steam.output.stats.neverPlayed >= 0
====
